---- MODULE Spec2Model ----
(***************************************************************************)
(* Model of the tic-tac-toe promo front end (src/src/App.tsx): the App     *)
(* component's state, the mount effect, resetGame, onCellClick with the    *)
(* postMove call it awaits, and the reward dialog's dismissal.             *)
(*                                                                         *)
(* JavaScript strings are sequences of one-character strings, so that      *)
(* concatenation, join and encodeURIComponent are computed, not assumed.   *)
(* Arrays are functions over 0..n-1, keeping the source's indices.         *)
(***************************************************************************)
EXTENDS Integers, Sequences, FiniteSets, TLC

VARIABLES store, sessionId, mounted, board, status, busy, error, tgLink,
          inflight, nIssued, resetSince, generated, ev

snapshot == <<sessionId, board, status, busy, error, tgLink>>
vars == <<store, sessionId, mounted, board, status, busy, error, tgLink,
          inflight, nIssued, resetSince, generated, ev>>

(* ---------------------------- bounds ----------------------------------- *)

\* postMove calls issued in one behaviour
MaxRequests == 2

\* length of the identifiers found in the store, or handed to the link
\* builder, when these are enumerated
MaxSidLen == 2

(* ------------------------- values and strings -------------------------- *)

\* A nullable value is a sequence of length 0 (null) or 1 (the value), so
\* that null and "" stay distinct: error, tgLink, the localStorage entry.
Null == <<>>
Some(x) == <<x>>
IsNull(o) == Len(o) = 0
Val(o) == o[1]

EmptyStr == <<>>

BOT_USERNAME == <<"t","t","t","4","3","2","_","b","o","t">>

BoardSize == 9

Statuses == {"in_progress", "win", "lose", "draw"}

\* Array.prototype.join on a list of strings
RECURSIVE Join(_, _)
Join(xs, sep) ==
    IF Len(xs) = 0 THEN EmptyStr
    ELSE IF Len(xs) = 1 THEN xs[1]
    ELSE xs[1] \o sep \o Join(Tail(xs), sep)

Digit(d) == <<"0","1","2","3","4","5","6","7","8","9">>[d + 1]

\* decimal rendering of a non-negative number in a template literal
RECURSIVE NumToStr(_)
NumToStr(n) ==
    IF n < 10 THEN <<Digit(n)>>
    ELSE NumToStr(n \div 10) \o <<Digit(n % 10)>>

(* --------------------------- session identity -------------------------- *)

\* outcomes of crypto.randomUUID() considered
UUIDs == {<<"u","1">>, <<"u","2">>}

\* contents of localStorage["ttt_session_id"] when the page loads
InitialStores == {Null, Some(EmptyStr), Some(<<"a"," ","&","b">>)}

\* characters of the identifiers enumerated: unreserved ones, ones that
\* encodeURIComponent escapes, and the escape character itself
SidAlphabet == {"a", "_", "2", "6", "%", "&", " "}

\* the strings over SidAlphabet of length at most MaxSidLen
BoundedSids == UNION {[1..k -> SidAlphabet] : k \in 0..MaxSidLen}

\* mutant: a new identifier is generated and stored on every call
getOrCreateSessionId_alwaysNew(st, u) ==
    [id |-> <<"s","_">> \o u, store |-> Some(<<"s","_">> \o u)]

\* getOrCreateSessionId(): the value returned and the store afterwards,
\* for the uuid u that crypto.randomUUID() would produce
getOrCreateSessionId(st, u) ==
    IF ~IsNull(st) /\ Len(Val(st)) > 0
    THEN [id |-> Val(st), store |-> st]
    ELSE [id |-> <<"s","_">> \o u, store |-> Some(<<"s","_">> \o u)]

(* ------------------------------ the board ------------------------------ *)

EmptyBoard == [k \in 0..(BoardSize - 1) |-> 0]

\* board[i] in JavaScript: undefined outside the array
Undefined == -1
At(b, i) == IF i \in DOMAIN b THEN b[i] ELSE Undefined

(* ------------------------------ reward link ---------------------------- *)

\* characters encodeURIComponent leaves alone, among those the model uses
Unreserved ==
    {"a","b","s","u","t","0","1","2","3","4","5","6","7","8","9","D","F",
     "_","-",".","!","~","*","'","(",")"}

\* encodeURIComponent on one character (ASCII: "%" and two hex digits)
EncodeChar(c) ==
    IF c \in Unreserved THEN <<c>>
    ELSE IF c = " " THEN <<"%","2","0">>
    ELSE IF c = "&" THEN <<"%","2","6">>
    ELSE IF c = "%" THEN <<"%","2","5">>
    ELSE IF c = "=" THEN <<"%","3","D">>
    ELSE <<"%","3","F">>

RECURSIVE encodeURIComponent(_)
encodeURIComponent(s) ==
    IF Len(s) = 0 THEN EmptyStr
    ELSE EncodeChar(Head(s)) \o encodeURIComponent(Tail(s))

\* mutant: the identifier is appended as it is
buildTelegramLink_raw(sid) ==
    <<"h","t","t","p","s",":","/","/","t",".","m","e","/">> \o BOT_USERNAME
        \o <<"?","s","t","a","r","t","=">> \o sid

LinkPrefix ==
    <<"h","t","t","p","s",":","/","/","t",".","m","e","/">> \o BOT_USERNAME
        \o <<"?","s","t","a","r","t","=">>

buildTelegramLink(sid) == LinkPrefix \o encodeURIComponent(sid)

(* ------------------------- transport and server ------------------------ *)

\* HTTP status codes of non-success responses considered
ErrorCodes == {400, 500}

\* message of the TypeError fetch rejects with
NetworkError == <<"n","e","t">>

\* message of the SyntaxError res.json() rejects with on a success response
JsonError == <<"j","s","o","n">>

StrMsg(s) == [tag |-> "string", val |-> s]
ArrMsg(xs) == [tag |-> "array", val |-> xs]
NoMsg == [tag |-> "undefined", val |-> EmptyStr]

\* what `body` is after the try/catch around res.json() on a non-success
\* response: null when parsing failed, else an object and its message field
ErrorBodies ==
    { [isNull |-> TRUE, message |-> NoMsg],
      [isNull |-> FALSE, message |-> NoMsg],
      [isNull |-> FALSE, message |-> StrMsg(EmptyStr)],
      [isNull |-> FALSE, message |-> StrMsg(<<"b","a","d">>)],
      [isNull |-> FALSE, message |-> ArrMsg(<< <<"o","o","r">> >>)],
      [isNull |-> FALSE, message |-> ArrMsg(<< <<"x">>, <<"y">> >>)],
      [isNull |-> FALSE, message |-> ArrMsg(<< >>)] }

\* JavaScript truthiness of body?.message
Truthy(m) ==
    \/ m.tag = "array"
    \/ m.tag = "string" /\ Len(m.val) > 0

\* the message of the Error postMove throws for a non-success response
postMoveErrorMessage(body, httpStatus) ==
    LET m == IF body.isNull THEN NoMsg ELSE body.message
        msg == IF Truthy(m) THEN m
               ELSE StrMsg(<<"H","T","T","P"," ">> \o NumToStr(httpStatus))
    IN IF msg.tag = "array" THEN Join(msg.val, <<",", " ">>) ELSE msg.val

\* mutant: the payload carries the board with the user's mark already placed
postMoveRequest_optimistic(id, sid, b, i) ==
    [id |-> id, sessionId |-> sid, board |-> [b EXCEPT ![i] = 1],
     cellIndex |-> i, pc |-> "fetch", http |-> 0]

\* the request postMove sends: JSON.stringify({ sessionId, board, cellIndex })
postMoveRequest(id, sid, b, i) ==
    [id |-> id, sessionId |-> sid, board |-> b, cellIndex |-> i,
     pc |-> "fetch", http |-> 0]

\* lowest empty cell of b, or -1
FirstEmpty(b) ==
    IF \E k \in DOMAIN b : b[k] = 0
    THEN CHOOSE k \in DOMAIN b : b[k] = 0 /\ \A j \in DOMAIN b : j < k => b[j] # 0
    ELSE -1

\* a server that plays the user's mark and answers in the lowest empty cell
HonestBoard(b, i) ==
    LET b1 == IF i \in DOMAIN b THEN [b EXCEPT ![i] = 1] ELSE b
        k == FirstEmpty(b1)
    IN IF k = -1 THEN b1 ELSE [b1 EXCEPT ![k] = 2]

\* boards a server may send whatever the request was
ArbitraryBoards ==
    { EmptyBoard,
      [k \in 0..(BoardSize - 1) |-> IF k % 2 = 0 THEN 2 ELSE 1],
      [k \in 0..(BoardSize - 2) |-> 0] }

\* bodies of a success response to request r: the code validates nothing
MoveResponses(r) ==
    [success : BOOLEAN, status : Statuses,
     board : {HonestBoard(r.board, r.cellIndex)} \cup ArbitraryBoards]

(* ------------------------------ the component -------------------------- *)

\* resetSince: the ids of the requests in flight that were in flight at some
\* Reset. ev: the last step taken: the handler, the content of the cell a
\* click targeted, the request the step concerns, what the transport
\* delivered (of a response, the fields the handler reads; of a non-success
\* response, the body postMove parsed; of an accepted
\* click, the error it cleared), and whether a Reset was invoked while that
\* request was in flight.
Event(op, cell, req, res, msg, stale) ==
    [op |-> op, cell |-> cell, req |-> req, res |-> res, msg |-> msg,
     stale |-> stale]

Init ==
    /\ store \in InitialStores
    /\ sessionId = EmptyStr
    /\ mounted = FALSE
    /\ board = EmptyBoard
    /\ status = "in_progress"
    /\ busy = FALSE
    /\ error = Null
    /\ tgLink = Null
    /\ inflight = {}
    /\ nIssued = 0
    /\ resetSince = {}
    /\ generated = {}
    /\ ev = Event("init", -1, Null, Null, Null, FALSE)

\* setSessionId(getOrCreateSessionId()): crypto.randomUUID() returns a uuid
\* it has not returned before (generated: the uuids it has returned), and is
\* called only when the store holds no identifier
callGetOrCreate ==
    \E u \in UUIDs :
        LET r == getOrCreateSessionId(store, u)
        IN /\ r.store = store \/ u \notin generated
           /\ sessionId' = r.id
           /\ store' = r.store
           /\ generated' = IF r.store = store THEN generated
                           ELSE generated \cup {u}

\* useEffect(() => setSessionId(getOrCreateSessionId()), [])
Mount ==
    /\ ~mounted
    /\ callGetOrCreate
    /\ mounted' = TRUE
    /\ ev' = Event("mount", -1, Null, Null, Null, FALSE)
    /\ UNCHANGED <<board, status, busy, error, tgLink, inflight, nIssued,
                   resetSince>>

\* mutant: the busy flag is not consulted
canPlay_ignoreBusy == status = "in_progress"

\* mutant: the status is not consulted
canPlay_ignoreStatus == ~busy

canPlay == status = "in_progress" /\ ~busy

\* mutant: Reset also clears the busy flag
resetGame_clearsBusy ==
    /\ board' = EmptyBoard
    /\ status' = "in_progress"
    /\ error' = Null
    /\ tgLink' = Null
    /\ busy' = FALSE
    /\ resetSince' = resetSince \cup {r.id : r \in inflight}
    /\ ev' = Event("reset", -1, Null, Null, Null, FALSE)
    /\ UNCHANGED <<generated, store, sessionId, mounted, inflight, nIssued>>

\* mutant: Reset forgets to drop the reward link and the error
resetGame_keepLink ==
    /\ board' = EmptyBoard
    /\ status' = "in_progress"
    /\ resetSince' = resetSince \cup {r.id : r \in inflight}
    /\ ev' = Event("reset", -1, Null, Null, Null, FALSE)
    /\ UNCHANGED <<generated, store, sessionId, mounted, busy, inflight, nIssued, error,
                   tgLink>>

resetGame ==
    /\ board' = EmptyBoard
    /\ status' = "in_progress"
    /\ error' = Null
    /\ tgLink' = Null
    /\ resetSince' = resetSince \cup {r.id : r \in inflight}
    /\ ev' = Event("reset", -1, Null, Null, Null, FALSE)
    /\ UNCHANGED <<generated, store, sessionId, mounted, busy, inflight, nIssued>>

\* onClose of TelegramLinkModal, rendered only while tgLink is truthy
closeModal ==
    /\ ~IsNull(tgLink) /\ Len(Val(tgLink)) > 0
    /\ tgLink' = Null
    /\ ev' = Event("close", -1, Null, Null, Null, FALSE)
    /\ UNCHANGED <<generated, store, sessionId, mounted, board, status, busy, error,
                   inflight, nIssued, resetSince>>

\* mutant: the user's mark is placed on the local board before the request
onCellClick_optimistic(i) ==
    IF ~canPlay \/ At(board, i) # 0
    THEN /\ ev' = Event("click_dropped", At(board, i), Null, Null, Null, FALSE)
         /\ UNCHANGED <<generated, store, sessionId, mounted, board, status, busy, error,
                        tgLink, inflight, nIssued, resetSince>>
    ELSE /\ nIssued < MaxRequests
         /\ error' = Null
         /\ busy' = TRUE
         /\ board' = [board EXCEPT ![i] = 1]
         /\ LET r == postMoveRequest(nIssued + 1, sessionId, board, i)
            IN /\ inflight' = inflight \cup {r}
               /\ ev' = Event("click_sent", At(board, i), Some(r), Null, error,
                              FALSE)
         /\ nIssued' = nIssued + 1
         /\ UNCHANGED <<generated, store, sessionId, mounted, status, tgLink, resetSince>>

\* mutant: the error is cleared before the guard is looked at
onCellClick_clearFirst(i) ==
    IF ~canPlay \/ At(board, i) # 0
    THEN /\ error' = Null
         /\ ev' = Event("click_dropped", At(board, i), Null, Null, Null, FALSE)
         /\ UNCHANGED <<generated, store, sessionId, mounted, board, status, busy,
                        tgLink, inflight, nIssued, resetSince>>
    ELSE /\ nIssued < MaxRequests
         /\ error' = Null
         /\ busy' = TRUE
         /\ LET r == postMoveRequest(nIssued + 1, sessionId, board, i)
            IN /\ inflight' = inflight \cup {r}
               /\ ev' = Event("click_sent", At(board, i), Some(r), Null, error,
                              FALSE)
         /\ nIssued' = nIssued + 1
         /\ UNCHANGED <<generated, store, sessionId, mounted, board, status, tgLink,
                        resetSince>>

\* the two early returns of onCellClick
clickRejected(i) == ~canPlay \/ At(board, i) # 0

\* onCellClick up to the await: the synchronous part of the handler, with
\* the fetch that postMove starts
onCellClick(i) ==
    IF clickRejected(i)
    THEN /\ ev' = Event("click_dropped", At(board, i), Null, Null, Null, FALSE)
         /\ UNCHANGED <<generated, store, sessionId, mounted, board, status, busy, error,
                        tgLink, inflight, nIssued, resetSince>>
    ELSE /\ nIssued < MaxRequests
         /\ error' = Null
         /\ busy' = TRUE
         /\ LET r == postMoveRequest(nIssued + 1, sessionId, board, i)
            IN /\ inflight' = inflight \cup {r}
               /\ ev' = Event("click_sent", At(board, i), Some(r), Null, error,
                              FALSE)
         /\ nIssued' = nIssued + 1
         /\ UNCHANGED <<generated, store, sessionId, mounted, board, status, tgLink,
                        resetSince>>

\* mutant: busy is cleared in the catch block only, not after a success
onResolved_noFinally(r, res) ==
    /\ board' = res.board
    /\ status' = res.status
    /\ tgLink' = IF res.status = "win"
                 THEN Some(buildTelegramLink(r.sessionId))
                 ELSE tgLink
    /\ busy' = busy
    /\ inflight' = inflight \ {r}
    /\ ev' = Event("resolved", -1, Some(r),
                 Some([status |-> res.status, board |-> res.board]), Null,
                 r.id \in resetSince)
    /\ resetSince' = resetSince \ {r.id}
    /\ UNCHANGED <<generated, store, sessionId, mounted, error, nIssued>>

\* mutant: the user's mark is merged into the board the server sent
onResolved_merge(r, res) ==
    /\ board' = [res.board EXCEPT ![r.cellIndex] = 1]
    /\ status' = res.status
    /\ tgLink' = IF res.status = "win"
                 THEN Some(buildTelegramLink(r.sessionId))
                 ELSE tgLink
    /\ busy' = FALSE
    /\ inflight' = inflight \ {r}
    /\ ev' = Event("resolved", -1, Some(r),
                 Some([status |-> res.status, board |-> res.board]), Null,
                 r.id \in resetSince)
    /\ resetSince' = resetSince \ {r.id}
    /\ UNCHANGED <<generated, store, sessionId, mounted, error, nIssued>>

\* mutant: the reward link is built whenever the game is over
onResolved_linkWhenOver(r, res) ==
    /\ board' = res.board
    /\ status' = res.status
    /\ tgLink' = IF res.status # "in_progress"
                 THEN Some(buildTelegramLink(r.sessionId))
                 ELSE tgLink
    /\ busy' = FALSE
    /\ inflight' = inflight \ {r}
    /\ ev' = Event("resolved", -1, Some(r),
                 Some([status |-> res.status, board |-> res.board]), Null,
                 r.id \in resetSince)
    /\ resetSince' = resetSince \ {r.id}
    /\ UNCHANGED <<generated, store, sessionId, mounted, error, nIssued>>

\* onCellClick after the await when postMove returned res: the try block's
\* remainder and the finally block; sessionId is the one the handler closed over
onResolved(r, res) ==
    /\ board' = res.board
    /\ status' = res.status
    /\ tgLink' = IF res.status = "win"
                 THEN Some(buildTelegramLink(r.sessionId))
                 ELSE tgLink
    /\ busy' = FALSE
    /\ inflight' = inflight \ {r}
    /\ ev' = Event("resolved", -1, Some(r),
                 Some([status |-> res.status, board |-> res.board]), Null,
                 r.id \in resetSince)
    /\ resetSince' = resetSince \ {r.id}
    /\ UNCHANGED <<generated, store, sessionId, mounted, error, nIssued>>

\* mutant: the catch block swallows the error without recording it
onRejected_swallow(r, msg, body) ==
    /\ error' = error
    /\ busy' = FALSE
    /\ inflight' = inflight \ {r}
    /\ ev' = Event("rejected", -1, Some(r), body, Some(msg),
                 r.id \in resetSince)
    /\ resetSince' = resetSince \ {r.id}
    /\ UNCHANGED <<generated, store, sessionId, mounted, board, status, tgLink, nIssued>>

\* mutant: no finally block, busy is cleared on the success path only
onRejected_noFinally(r, msg, body) ==
    /\ error' = Some(msg)
    /\ busy' = busy
    /\ inflight' = inflight \ {r}
    /\ ev' = Event("rejected", -1, Some(r), body, Some(msg),
                 r.id \in resetSince)
    /\ resetSince' = resetSince \ {r.id}
    /\ UNCHANGED <<generated, store, sessionId, mounted, board, status, tgLink, nIssued>>

\* onCellClick after the await when postMove threw an Error with message
\* msg: the catch block and the finally block (body: the parsed body of the
\* non-success response the message was taken from, if any; recorded only)
onRejected(r, msg, body) ==
    /\ error' = Some(msg)
    /\ busy' = FALSE
    /\ inflight' = inflight \ {r}
    /\ ev' = Event("rejected", -1, Some(r), body, Some(msg),
                 r.id \in resetSince)
    /\ resetSince' = resetSince \ {r.id}
    /\ UNCHANGED <<generated, store, sessionId, mounted, board, status, tgLink, nIssued>>

\* fetch rejects: no response at all
FetchRejects(r) ==
    /\ r.pc = "fetch"
    /\ onRejected(r, NetworkError, Null)

\* fetch resolves with a Response; postMove goes on to read its body
FetchResponds(r) ==
    /\ r.pc = "fetch"
    /\ \E code \in {200} \cup ErrorCodes :
        LET r2 == [r EXCEPT !.pc = IF code = 200 THEN "ok_body" ELSE "error_body",
                            !.http = code]
        IN /\ inflight' = (inflight \ {r}) \cup {r2}
           /\ ev' = Event("responded", -1, Some(r2), Null, Null, FALSE)
    /\ UNCHANGED <<generated, store, sessionId, mounted, board, status, busy, error,
                   tgLink, nIssued, resetSince>>

\* !res.ok: the body is read (or not) and the Error is thrown
ErrorBodyRead(r) ==
    /\ r.pc = "error_body"
    /\ \E body \in ErrorBodies :
          onRejected(r, postMoveErrorMessage(body, r.http), Some(body))

\* res.ok, and res.json() rejects
OkBodyRejects(r) ==
    /\ r.pc = "ok_body"
    /\ onRejected(r, JsonError, Null)

\* res.ok, and res.json() resolves
OkBodyResolves(r) ==
    /\ r.pc = "ok_body"
    /\ \E res \in MoveResponses(r) : onResolved(r, res)

\* the transport call of r completes, one way or the other
Completes(r) ==
    \/ FetchRejects(r)
    \/ ErrorBodyRead(r)
    \/ OkBodyRejects(r)
    \/ OkBodyResolves(r)

Click == \E i \in DOMAIN board : onCellClick(i)

Next ==
    \/ Mount
    \/ resetGame
    \/ closeModal
    \/ Click
    \/ \E r \in inflight : FetchRejects(r)
    \/ \E r \in inflight : FetchResponds(r)
    \/ \E r \in inflight : ErrorBodyRead(r)
    \/ \E r \in inflight : OkBodyRejects(r)
    \/ \E r \in inflight : OkBodyResolves(r)

Spec == Init /\ [][Next]_vars

\* the transport call always settles: fetch and the body read each finish
FairSpec ==
    /\ Spec
    /\ WF_vars(\E r \in inflight : FetchRejects(r) \/ FetchResponds(r))
    /\ WF_vars(\E r \in inflight :
                 ErrorBodyRead(r) \/ OkBodyRejects(r) \/ OkBodyResolves(r))

(* --------- getOrCreateSessionId against a store, call after call ------- *)

\* the store holds nothing, or any identifier of bounded length
SessionInit ==
    /\ store \in {Null} \cup {Some(sid) : sid \in BoundedSids}
    /\ sessionId = EmptyStr
    /\ mounted = FALSE
    /\ board = EmptyBoard
    /\ status = "in_progress"
    /\ busy = FALSE
    /\ error = Null
    /\ tgLink = Null
    /\ inflight = {}
    /\ nIssued = 0
    /\ resetSince = {}
    /\ generated = {}
    /\ ev = Event("init", -1, Null, Null, Null, FALSE)

\* the page is loaded (again) and the mount effect calls getOrCreateSessionId
SessionCall ==
    /\ callGetOrCreate
    /\ mounted' = TRUE
    /\ ev' = Event("getOrCreate", -1, Null, Null, Null, FALSE)
    /\ UNCHANGED <<board, status, busy, error, tgLink, inflight, nIssued,
                   resetSince>>

\* the user clears the site's storage: localStorage loses the entry
ClearStore ==
    /\ ~IsNull(store)
    /\ store' = Null
    /\ ev' = Event("clear", -1, Null, Null, Null, FALSE)
    /\ UNCHANGED <<generated, sessionId, mounted, board, status, busy, error,
                   tgLink, inflight, nIssued, resetSince>>

SessionNext == SessionCall \/ ClearStore

SessionSpec == SessionInit /\ [][SessionNext]_vars

(* ------------------- buildTelegramLink on any identifier --------------- *)

\* the component holds any identifier of bounded length
LinkInit ==
    /\ store = Null
    /\ sessionId \in BoundedSids
    /\ mounted = TRUE
    /\ board = EmptyBoard
    /\ status = "in_progress"
    /\ busy = FALSE
    /\ error = Null
    /\ tgLink = Null
    /\ inflight = {}
    /\ nIssued = 0
    /\ resetSince = {}
    /\ generated = {}
    /\ ev = Event("init", -1, Null, Null, Null, FALSE)

\* setTgLink(buildTelegramLink(sessionId))
BuildLink ==
    /\ tgLink' = Some(buildTelegramLink(sessionId))
    /\ ev' = Event("build", -1, Null, Null, Null, FALSE)
    /\ UNCHANGED <<generated, store, sessionId, mounted, board, status, busy,
                   error, inflight, nIssued, resetSince>>

LinkNext == BuildLink \/ closeModal

LinkSpec == LinkInit /\ [][LinkNext]_vars

TypeOK ==
    /\ busy \in BOOLEAN
    /\ status \in Statuses
    /\ nIssued \in 0..MaxRequests

(* ============================== claims ================================= *)

Terminal == {"win", "lose", "draw"}

\* the step completes request r with a failure (fetch rejected, non-success
\* response, or unreadable success body)
Fails(r) == FetchRejects(r) \/ ErrorBodyRead(r) \/ OkBodyRejects(r)

\* C1: at most one postMove call is outstanding in every reachable state,
\* and a click that arrives while busy issues no request and queues nothing.
C1_AtMostOneOutstanding ==
    /\ [](Cardinality(inflight) <= 1)
    /\ [][busy /\ Click => inflight' = inflight /\ nIssued' = nIssued]_vars

\* a click on an empty cell of a game in progress was dropped only because a
\* request is in flight
C1_Witness ==
    /\ ev.op = "click_dropped"
    /\ busy /\ status = "in_progress" /\ ev.cell = 0
    /\ Cardinality(inflight) = 1

\* C2: a click on an empty cell i of board b, with the game in progress and
\* not busy, issues exactly one request, carrying cellIndex i, the board b
\* with cell i still empty, and the current session id; a completion issues
\* no further request (no retry).
C2_ClickIssuesOneRequest ==
    [][ /\ \A i \in DOMAIN board :
             (board[i] = 0 /\ status = "in_progress" /\ ~busy /\ onCellClick(i))
                => /\ nIssued' = nIssued + 1
                   /\ \E r \in inflight' :
                        /\ r \notin inflight
                        /\ inflight' = inflight \cup {r}
                        /\ r.cellIndex = i
                        /\ r.board = board
                        /\ r.board[i] = 0
                        /\ r.sessionId = sessionId
        /\ \A r \in inflight :
             Completes(r) => nIssued' = nIssued /\ inflight' = inflight \ {r}
      ]_vars

\* a request was just issued from a board that already holds marks
C2_Witness ==
    /\ ev.op = "click_sent"
    /\ Val(ev.req) \in inflight
    /\ board # EmptyBoard
    /\ Val(ev.req).board = board

\* C3: after a successful response r the board is r.board and the status is
\* r.status, whatever the local board and the clicked index were.
C3_ResponseReplacesState ==
    ev.op = "resolved" =>
        /\ board = Val(ev.res).board
        /\ status = Val(ev.res).status

\* the server answered a request made on a non-empty board with a board in
\* which even the clicked cell is empty
C3_Witness ==
    /\ ev.op = "resolved"
    /\ Val(ev.req).board # EmptyBoard
    /\ At(board, Val(ev.req).cellIndex) = 0
    /\ board # Val(ev.req).board

\* C4: while the status is win, lose or draw, a step that is not a Reset
\* issues no request and leaves the status terminal.
C4_TerminalUntilReset ==
    [][ (status \in Terminal /\ ev'.op # "reset")
          => /\ status' \in Terminal
             /\ nIssued' = nIssued
             /\ inflight' = inflight ]_vars

\* a click on an empty cell was dropped because the game is over
C4_Witness ==
    /\ ev.op = "click_dropped"
    /\ status \in Terminal
    /\ ~busy
    /\ ev.cell = 0

\* C5: right after Reset the board is nine empty cells, the status is
\* in_progress, and error and reward link are none.
C5_ResetYieldsFreshGame ==
    ev.op = "reset" =>
        /\ board = EmptyBoard
        /\ DOMAIN board = 0..8
        /\ \A k \in 0..8 : board[k] = 0
        /\ status = "in_progress"
        /\ error = Null
        /\ tgLink = Null

\* Reset was invoked while a request was in flight
C5_Witness ==
    /\ ev.op = "reset"
    /\ busy
    /\ inflight # {}

\* C6: the completion of a request that was in flight at a Reset changes
\* none of board, status, error and reward link.
C6_StaleResponseDiscarded ==
    [][ \A r \in inflight :
          (r.id \in resetSince /\ Completes(r))
             => UNCHANGED <<board, status, error, tgLink>> ]_vars

\* C7 as stated: after a failed request, board and status are what they were
\* just before the click (the request's board, in_progress), the reward link
\* is unchanged, error is the failure's message and busy is false.
C7_FailureRestoresPreClick ==
    [][ \A r \in inflight :
          Fails(r) => /\ board' = r.board
                      /\ status' = "in_progress"
                      /\ tgLink' = tgLink
                      /\ error' = ev'.msg
                      /\ ~IsNull(error')
                      /\ ~busy' ]_vars

\* C7 amended: a failed request leaves board, status and reward link as they
\* were just before the completion, which are the values from just before the
\* click when no Reset was invoked while the request was in flight; error is
\* the failure's message and busy is false.
C7_FailureLeavesState ==
    [][ \A r \in inflight :
          Fails(r) => /\ UNCHANGED <<board, status, tgLink>>
                      /\ (r.id \notin resetSince
                            => board' = r.board /\ status' = "in_progress")
                      /\ error' = ev'.msg
                      /\ ~IsNull(error')
                      /\ ~busy' ]_vars

\* a request made on a non-empty board failed with HTTP 400 and the message
\* list ["oor"], with no Reset in between
C7_Witness ==
    /\ ev.op = "rejected"
    /\ ~ev.stale
    /\ Val(ev.req).http = 400
    /\ error = Some(<<"o","o","r">>)
    /\ board = Val(ev.req).board
    /\ board # EmptyBoard
    /\ ~busy

\* C8: after a successful response the reward link is the link built from the
\* session id of the request when the response's status is win, and none
\* otherwise; for session s_u1 it is https://t.me/ttt432_bot?start=s_u1.
C8_RewardLinkIffWin ==
    ev.op = "resolved" =>
        LET sid == Val(ev.req).sessionId
        IN IF Val(ev.res).status = "win"
           THEN /\ tgLink = Some(buildTelegramLink(sid))
                /\ (sid = <<"s","_","u","1">> =>
                      Val(tgLink) =
                        <<"h","t","t","p","s",":","/","/","t",".","m","e","/",
                          "t","t","t","4","3","2","_","b","o","t",
                          "?","s","t","a","r","t","=","s","_","u","1">>)
           ELSE tgLink = Null

\* an empty board, a click on cell 4 for session s_u1, and a win
C8_Witness ==
    /\ ev.op = "resolved"
    /\ Val(ev.req).board = EmptyBoard
    /\ Val(ev.req).cellIndex = 4
    /\ Val(ev.req).sessionId = <<"s","_","u","1">>
    /\ status = "win"
    /\ ~IsNull(tgLink)

\* C9: busy is never true without a call in flight, and whenever busy is true
\* a state with busy false follows, given that the transport call settles.
C9_BusyEventuallyCleared ==
    /\ [](busy => inflight # {})
    /\ (busy ~> ~busy)

\* busy was cleared by the completion of a request that a Reset overtook
C9_Witness ==
    /\ ev.op \in {"resolved", "rejected"}
    /\ ev.stale
    /\ ~busy
    /\ inflight = {}

\* C10: a click while the status is not in_progress, or busy, or on a cell
\* that is not empty, issues no request and changes no field of the snapshot.
C10_RejectedClickIsNoOp ==
    [][ \A i \in DOMAIN board :
          ((status # "in_progress" \/ busy \/ board[i] # 0) /\ onCellClick(i))
             => UNCHANGED <<sessionId, board, status, busy, error, tgLink,
                            inflight, nIssued, store>> ]_vars

\* a click on an occupied cell was dropped and the error of the previous
\* failure is still shown
C10_Witness ==
    /\ ev.op = "click_dropped"
    /\ ev.cell \in {1, 2}
    /\ status = "in_progress" /\ ~busy
    /\ ~IsNull(error)

\* C11: in every reachable state the board has exactly nine cells, each of
\* them empty, the player's or the opponent's.
C11_BoardHasNineCells ==
    /\ DOMAIN board = 0..8
    /\ \A k \in DOMAIN board : board[k] \in {0, 1, 2}

\* the guard a click has to pass, in the claim's words
GuardPasses(i) == status = "in_progress" /\ ~busy /\ At(board, i) = 0

\* C14: right after a failed move on board b and cell i, with no Reset while
\* it was in flight, the board is b and a click on i passes the guard; that
\* click issues a new request with board b and cellIndex i; Reset is enabled.
C14_FailureIsRecoverable ==
    /\ []((ev.op = "rejected" /\ ~ev.stale)
            => /\ board = Val(ev.req).board
               /\ GuardPasses(Val(ev.req).cellIndex)
               /\ ENABLED resetGame)
    /\ [][ (ev.op = "rejected" /\ ~ev.stale
              /\ onCellClick(Val(ev.req).cellIndex))
             => \E r \in inflight' :
                  /\ r \notin inflight
                  /\ r.id # Val(ev.req).id
                  /\ r.board = Val(ev.req).board
                  /\ r.cellIndex = Val(ev.req).cellIndex ]_vars

\* a click was accepted while the error of a failed move was shown, and
\* it sent the board as the failure left it
C14_Witness ==
    /\ ev.op = "click_sent"
    /\ ~IsNull(ev.msg)
    /\ Val(ev.req).id = 2
    /\ Val(ev.req).board = board
    /\ Val(ev.req) \in inflight

\* the strings xs[1], ..., xs[n] in this order with ", " between neighbours
JoinedInOrder(xs) ==
    LET F[k \in 0..Len(xs)] ==
            IF k = 0 THEN EmptyStr
            ELSE IF k = 1 THEN xs[1]
            ELSE F[k - 1] \o <<",", " ">> \o xs[k]
    IN F[Len(xs)]

\* C15: after a non-success response, the error is the body's message when
\* that is a string, the body's message strings joined in order when it is a
\* list, and "HTTP <code>" when the body is unparseable or has no message (an
\* empty string counts as no message); in each case the error is present and
\* is not the empty string.
C15_ErrorMessageExtracted ==
    (ev.op = "rejected" /\ ~IsNull(ev.res)) =>
        LET body == Val(ev.res)
            code == Val(ev.req).http
            generic == IF code = 400
                       THEN <<"H","T","T","P"," ","4","0","0">>
                       ELSE <<"H","T","T","P"," ","5","0","0">>
            expected ==
                IF body.isNull THEN generic
                ELSE IF body.message.tag = "array"
                     THEN JoinedInOrder(body.message.val)
                ELSE IF body.message.tag = "string" /\ body.message.val # EmptyStr
                     THEN body.message.val
                ELSE generic
        IN /\ ev.msg = Some(expected)
           /\ error = Some(expected)
           /\ Len(Val(error)) > 0

\* C16: Reset leaves busy, sessionId, the store and the request in flight
\* alone; while a request that a Reset overtook is in flight busy is true and
\* no click issues a request.
C16_ResetLeavesRequestAlone ==
    /\ [][ev'.op = "reset"
            => UNCHANGED <<busy, sessionId, store, inflight, nIssued>>]_vars
    /\ [](resetSince # {} => busy)
    /\ [][(resetSince # {} /\ Click)
            => inflight' = inflight /\ nIssued' = nIssued]_vars

\* after a Reset with a request in flight, a click on a cell of the fresh
\* board was dropped
C16_Witness ==
    /\ ev.op = "click_dropped"
    /\ ev.cell = 0
    /\ board = EmptyBoard /\ status = "in_progress"
    /\ resetSince # {}
    /\ busy
    /\ Cardinality(inflight) = 1

\* C17: busy is true exactly when one request is in flight, and false exactly
\* when none is.
C17_BusyIffInFlight ==
    /\ busy => Cardinality(inflight) = 1
    /\ ~busy => inflight = {}

\* busy while the body of a success response is being read after a Reset
C17_Witness ==
    /\ busy
    /\ \E r \in inflight : r.pc = "ok_body" /\ r.id \in resetSince

\* C18: a present reward link implies status win.
C18_LinkImpliesWin ==
    ~IsNull(tgLink) => status = "win"

\* the link was set by a winning response that arrived after a Reset
C18_Witness ==
    /\ ev.op = "resolved"
    /\ ev.stale
    /\ ~IsNull(tgLink)
    /\ status = "win"

\* C19: an accepted click clears the error, sets busy and changes nothing
\* else of the snapshot; while its request is in flight and no Reset was
\* invoked, board and status are the pre-click ones and error is none.
C19_AcceptedClickFrame ==
    /\ [][ \A i \in DOMAIN board :
             (GuardPasses(i) /\ onCellClick(i))
                => /\ error' = Null
                   /\ busy' = TRUE
                   /\ UNCHANGED <<sessionId, board, status, tgLink, store>>
                   /\ board'[i] = 0 ]_vars
    /\ [](\A r \in inflight :
             r.id \notin resetSince
                => /\ board = r.board
                   /\ board[r.cellIndex] = 0
                   /\ status = "in_progress"
                   /\ error = Null
                   /\ busy)

\* the response to a request that cleared a shown error is being awaited on
\* a board with marks, the clicked cell still empty
C19_Witness ==
    /\ \E r \in inflight :
          /\ r.pc = "error_body"
          /\ r.id \notin resetSince
          /\ board = r.board
          /\ board[r.cellIndex] = 0
    /\ board # EmptyBoard
    /\ error = Null
    /\ busy

\* C20: every request and every reward link carries the non-empty session id
\* getOrCreateSessionId returned, and the snapshot's sessionId never changes
\* once it is set.
C20_SessionIdCarried ==
    /\ [](\A r \in inflight :
             r.sessionId # EmptyStr /\ mounted /\ r.sessionId = sessionId)
    /\ []((ev.op = "resolved" /\ Val(ev.res).status = "win")
            => /\ sessionId # EmptyStr
               /\ tgLink = Some(buildTelegramLink(sessionId)))
    /\ [][sessionId # EmptyStr => sessionId' = sessionId]_vars

\* C12: a call of getOrCreateSessionId returns a stored non-empty identifier
\* unchanged and leaves the store alone; otherwise it generates an
\* identifier, stores it and returns it. A second call against the same
\* store returns the same identifier, and a call after the store was cleared
\* returns an identifier different from the previous one.
C12_GetOrCreateIdempotent ==
    /\ [][ SessionCall
             => IF ~IsNull(store) /\ Val(store) # EmptyStr
                THEN /\ sessionId' = Val(store)
                     /\ store' = store
                     /\ generated' = generated
                ELSE /\ sessionId' # EmptyStr
                     /\ store' = Some(sessionId')
                     /\ Cardinality(generated') = Cardinality(generated) + 1
         ]_vars
    /\ [][ (ev.op = "getOrCreate" /\ SessionCall)
             => sessionId' = sessionId /\ store' = store ]_vars
    /\ [][ (mounted /\ IsNull(store) /\ SessionCall)
             => sessionId' # sessionId ]_vars

\* a second identifier was generated, after the store had been cleared, and
\* it is the one now stored
C12_Witness ==
    /\ ev.op = "getOrCreate"
    /\ Cardinality(generated) = 2
    /\ store = Some(sessionId)

\* the value of the start parameter of a link: what follows the fixed part,
\* up to the next parameter or the fragment
StartParam(link) ==
    LET n == Len(LinkPrefix)
        rest == SubSeq(link, n + 1, Len(link))
        stops == {k \in 1..Len(rest) : rest[k] \in {"&", "#"}}
        end == IF stops = {} THEN Len(rest)
               ELSE (CHOOSE k \in stops : \A j \in stops : k <= j) - 1
    IN SubSeq(rest, 1, end)

HexDigits ==
    {"0","1","2","3","4","5","6","7","8","9","A","B","C","D","E","F",
     "a","b","c","d","e","f"}

\* percent-decoding is defined on s: every "%" is followed by two hex digits
RECURSIVE CanDecode(_)
CanDecode(s) ==
    IF Len(s) = 0 THEN TRUE
    ELSE IF Head(s) = "%"
         THEN /\ Len(s) >= 3
              /\ s[2] \in HexDigits /\ s[3] \in HexDigits
              /\ CanDecode(SubSeq(s, 4, Len(s)))
         ELSE CanDecode(Tail(s))

\* the character a percent escape stands for
DecodeEscape(h1, h2) ==
    IF <<h1, h2>> = <<"2","0">> THEN " "
    ELSE IF <<h1, h2>> = <<"2","6">> THEN "&"
    ELSE IF <<h1, h2>> = <<"2","5">> THEN "%"
    ELSE IF <<h1, h2>> \in {<<"3","D">>, <<"3","d">>} THEN "="
    ELSE "?"

\* percent-decoding of s, where it is defined
RECURSIVE decodeURIComponent(_)
decodeURIComponent(s) ==
    IF Len(s) = 0 THEN EmptyStr
    ELSE IF Head(s) = "%"
         THEN <<DecodeEscape(s[2], s[3])>>
                 \o decodeURIComponent(SubSeq(s, 4, Len(s)))
         ELSE <<Head(s)>> \o decodeURIComponent(Tail(s))

\* C13: for every session identifier s, the link built for s is
\* https://t.me/ttt432_bot?start= followed by a start parameter whose
\* percent-decoding is exactly s.
C13_LinkRoundTrip ==
    ev.op = "build" =>
        LET link == Val(tgLink)
            fixed == <<"h","t","t","p","s",":","/","/","t",".","m","e","/",
                       "t","t","t","4","3","2","_","b","o","t",
                       "?","s","t","a","r","t","=">>
            param == StartParam(link)
        IN /\ Len(link) >= Len(fixed)
           /\ SubSeq(link, 1, Len(fixed)) = fixed
           /\ link = fixed \o param
           /\ CanDecode(param)
           /\ decodeURIComponent(param) = sessionId

\* the link of an identifier made of an escape character and a separator
C13_Witness ==
    /\ ev.op = "build"
    /\ sessionId = <<"%", "&">>
    /\ StartParam(Val(tgLink)) = <<"%","2","5","%","2","6">>

====
